---- MODULE Spec2Model ----
(***************************************************************************)
(* Model of tcleaner/data.py: the TagData pair (df_table, df_tags) and its *)
(* three operations from_parquet, recalculate_tags, clean_tags_in_table.   *)
(*                                                                         *)
(* A DataFrame of records is a sequence of rows, each row a function from  *)
(* column name to value.  Tag names and ids are integers, ordered as the   *)
(* names and ids are.  A raised exception is a status other than "ok";     *)
(* KeyError is a LookupError.                                              *)
(***************************************************************************)
EXTENDS Integers, Sequences, FiniteSets

VARIABLES
    data,      \* the TagData object the caller holds (receiver of the next call)
    retval,    \* what the last call returned, None if it raised or nothing ran
    status,    \* "ok", or the exception the last call raised
    op,        \* name of the last call
    recalc,    \* the recalculate_tags argument of the last clean_tags_in_table
    pre,       \* the receiver as it was when the last call started
    raw,       \* the arguments of from_parquet, None if the pair was constructed
    dataFrom   \* the call that produced the object now in data

vars == <<data, retval, status, op, recalc, pre, raw, dataFrom>>

----------------------------------------------------------------------------
(* Bounds *)

\* rows of a table, and tag occurrences of a table over all its rows
MaxRecords == 2
MaxTotalTags == 2

\* tag names and ids, ordered as the integers are
Tags == {1, 2}
Ids == {1, 2}
ExtraVals == {"x"}
AttrVals == {"p", "q"}
CountVals == {1}

None == [none |-> TRUE]

Range(s) == {s[i] : i \in 1..Len(s)}

TagSeqs == UNION {[1..n -> Tags] : n \in 0..MaxTotalTags}

RECURSIVE TotalTags(_)
TotalTags(df_table) ==
    IF df_table = <<>> THEN 0
    ELSE Len(Head(df_table).tags) + TotalTags(Tail(df_table))

\* rows of the raw table: id, tags and one extra column
RawRecords == [id : Ids, tags : TagSeqs, extra : ExtraVals]
RawTables ==
    {t \in UNION {[1..n -> RawRecords] : n \in 0..MaxRecords} :
        TotalTags(t) <= MaxTotalTags}

\* the reference tag table, its rows keyed by name (d_raw_tags); None when no
\* file is given
RefTables == {None} \cup
    {[rows |-> f] : f \in UNION {[S -> [attr : AttrVals]] : S \in SUBSET Tags}}
PreservedColumns == {{}, {"attr"}}

----------------------------------------------------------------------------
(* pandas helpers *)

\* InsertById putting a row ahead of the rows of its id: an id-descending sort
\* that does not keep the order of equal ids
RECURSIVE InsertByIdTiesFirst(_, _)
InsertByIdTiesFirst(x, r) ==
    IF r = <<>> THEN <<x>>
    ELSE IF x.id >= Head(r).id THEN <<x>> \o r
    ELSE <<Head(r)>> \o InsertByIdTiesFirst(x, Tail(r))

\* df.sort_values(by=['id'], ascending=[False]): rows of equal id keep their order
RECURSIVE InsertById(_, _)
InsertById(x, r) ==
    IF r = <<>> THEN <<x>>
    ELSE IF x.id > Head(r).id THEN <<x>> \o r
    ELSE <<Head(r)>> \o InsertById(x, Tail(r))

RECURSIVE SortById(_)
SortById(s) ==
    IF s = <<>> THEN <<>>
    ELSE InsertById(s[Len(s)], SortById(SubSeq(s, 1, Len(s) - 1)))

\* TagRowBefore without the name key: sort_values(by=['count'])
TagRowBeforeCountOnly(x, y) == x.count > y.count

\* the order of sort_values(by=['count', 'name'], ascending=[False, True])
TagRowBefore(x, y) ==
    \/ x.count > y.count
    \/ x.count = y.count /\ x.name < y.name

RECURSIVE InsertByCountName(_, _)
InsertByCountName(x, r) ==
    IF r = <<>> THEN <<x>>
    ELSE IF TagRowBefore(x, Head(r)) THEN <<x>> \o r
    ELSE <<Head(r)>> \o InsertByCountName(x, Tail(r))

RECURSIVE SortByCountName(_)
SortByCountName(s) ==
    IF s = <<>> THEN <<>>
    ELSE InsertByCountName(s[Len(s)], SortByCountName(SubSeq(s, 1, Len(s) - 1)))

\* FilterTags that never tests the last tag of the sequence
RECURSIVE FilterTagsButLast(_, _)
FilterTagsButLast(tags, keep) ==
    IF Len(tags) <= 1 THEN tags
    ELSE IF Head(tags) \in keep
         THEN <<Head(tags)>> \o FilterTagsButLast(Tail(tags), keep)
         ELSE FilterTagsButLast(Tail(tags), keep)

\* [tag for tag in tags if tag in keep]
RECURSIVE FilterTags(_, _)
FilterTags(tags, keep) ==
    IF tags = <<>> THEN <<>>
    ELSE IF Head(tags) \in keep
         THEN <<Head(tags)>> \o FilterTags(Tail(tags), keep)
         ELSE FilterTags(Tail(tags), keep)

----------------------------------------------------------------------------
(* The tally: defaultdict(lambda: 0), keys in order of first insertion *)

EmptyTally == [keys |-> <<>>, count |-> [t \in Tags |-> 0]]

\* Incr written as d_tags[tag] = 1
IncrAssign(d, tag) ==
    [keys  |-> IF tag \in Range(d.keys) THEN d.keys ELSE Append(d.keys, tag),
     count |-> [d.count EXCEPT ![tag] = 1]]

\* d_tags[tag] += 1
Incr(d, tag) ==
    [keys  |-> IF tag \in Range(d.keys) THEN d.keys ELSE Append(d.keys, tag),
     count |-> [d.count EXCEPT ![tag] = @ + 1]]

\* for tag in tags: d_tags[tag] += 1
RECURSIVE ScanTags(_, _)
RECURSIVE ScanTagsOncePerRecord(_, _)

\* ScanTags counting a tag once per record: for tag in set(tags)
ScanTagsOncePerRecord(d, tags) ==
    IF tags = <<>> THEN d
    ELSE IF Head(tags) \in Range(Tail(tags))
         THEN ScanTagsOncePerRecord(d, Tail(tags))
         ELSE ScanTagsOncePerRecord(Incr(d, Head(tags)), Tail(tags))

ScanTags(d, tags) ==
    IF tags = <<>> THEN d ELSE ScanTags(Incr(d, Head(tags)), Tail(tags))

\* the scan loop over the rows of a table
RECURSIVE ScanTable(_, _)
ScanTable(d, table) ==
    IF table = <<>> THEN d
    ELSE ScanTable(ScanTags(d, Head(table).tags), Tail(table))

----------------------------------------------------------------------------
(* TagData *)

TagData(df_table, df_tags) == [df_table |-> df_table, df_tags |-> df_tags]

Names(df_tags) == {df_tags.rows[i].name : i \in 1..Len(df_tags.rows)}

Raise(self, exc) == [status |-> exc, self |-> self, retval |-> None]
Return(self, value) == [status |-> "ok", self |-> self, retval |-> value]

\* IngestTable without the filter on expected_tags: the tags stay as they
\* came
IngestTableUnfiltered(df_raw_table, d_raw_tags) ==
    [i \in 1..Len(df_raw_table) |->
        [id   |-> df_raw_table[i].id,
         tags |-> df_raw_table[i].tags]]

\* the row list and DataFrame of from_parquet's scan loop
IngestTable(df_raw_table, d_raw_tags) ==
    [i \in 1..Len(df_raw_table) |->
        [id   |-> df_raw_table[i].id,
         tags |-> IF d_raw_tags = None THEN df_raw_table[i].tags
                  ELSE FilterTags(df_raw_table[i].tags, DOMAIN d_raw_tags.rows)]]

from_parquet(df_raw_table, d_raw_tags, tags_preserved_columns) ==
    LET table == IngestTable(df_raw_table, d_raw_tags)
        d_tags == ScanTable(EmptyTally, table)
        df_table == SortById(table)
        columns == {"name"} \cup tags_preserved_columns \cup {"count"}
        rows == [i \in 1..Len(d_tags.keys) |->
                    [c \in columns |->
                        IF c = "name" THEN d_tags.keys[i]
                        ELSE IF c = "count" THEN d_tags.count[d_tags.keys[i]]
                        ELSE d_raw_tags.rows[d_tags.keys[i]][c]]]
    IN  IF table = <<>> THEN Raise(None, "KeyError")
        ELSE IF d_tags.keys # <<>> /\ tags_preserved_columns # {} /\ d_raw_tags = None
             THEN Raise(None, "TypeError")
        ELSE IF /\ tags_preserved_columns # {}
                /\ \E t \in Range(d_tags.keys) : t \notin DOMAIN d_raw_tags.rows
             THEN Raise(None, "KeyError")
        ELSE IF d_tags.keys = <<>> THEN Raise(None, "KeyError")
        ELSE Return(None, TagData(df_table,
                 [columns |-> columns, rows |-> SortByCountName(rows)]))

\* recalculate_tags making a row for every tag of d_tags instead of d_tags_count
recalculate_tags_over_d_tags(self) ==
    LET d_tags_count == ScanTable(EmptyTally, self.df_table)
        kept == self.df_tags.columns \ {"name", "count"}
        columns == {"name"} \cup kept \cup {"count"}
        rows == [i \in 1..Len(self.df_tags.rows) |->
                    [c \in columns |->
                        IF c = "count" THEN d_tags_count.count[self.df_tags.rows[i].name]
                        ELSE self.df_tags.rows[i][c]]]
        df_tags == [columns |-> columns, rows |-> SortByCountName(rows)]
    IN  IF rows = <<>> THEN Raise(self, "KeyError")
        ELSE Return([self EXCEPT !.df_tags = df_tags],
                    TagData(self.df_table, df_tags))

recalculate_tags(self) ==
    LET d_tags == [n \in Names(self.df_tags) |->
                      CHOOSE r \in Range(self.df_tags.rows) : r.name = n]
        d_tags_count == ScanTable(EmptyTally, self.df_table)
        kept == self.df_tags.columns \ {"name", "count"}
        columns == {"name"} \cup kept \cup {"count"}
        rows == [i \in 1..Len(d_tags_count.keys) |->
                    [c \in columns |->
                        IF c = "name" THEN d_tags_count.keys[i]
                        ELSE IF c = "count" THEN d_tags_count.count[d_tags_count.keys[i]]
                        ELSE d_tags[d_tags_count.keys[i]][c]]]
        df_tags == [columns |-> columns, rows |-> SortByCountName(rows)]
    IN  IF kept # {} /\ \E t \in Range(d_tags_count.keys) : t \notin DOMAIN d_tags
        THEN Raise(self, "KeyError")
        ELSE IF d_tags_count.keys = <<>> THEN Raise(self, "KeyError")
        ELSE Return([self EXCEPT !.df_tags = df_tags],
                    TagData(self.df_table, df_tags))

clean_tags_in_table(self, recalculate) ==
    LET existing_tags == Names(self.df_tags)
        table == [i \in 1..Len(self.df_table) |->
                    [self.df_table[i] EXCEPT
                        !.tags = FilterTags(self.df_table[i].tags, existing_tags)]]
        df_table == SortById(table)
        made == TagData(df_table, self.df_tags)
        again == recalculate_tags(made)
    IN  IF table = <<>> THEN Raise(self, "KeyError")
        ELSE IF recalculate
             THEN [status |-> again.status, self |-> self, retval |-> again.retval]
        ELSE Return(self, made)

----------------------------------------------------------------------------
(* Directly constructed TagData(df_table=..., df_tags=...) *)

TagRows(columns) ==
    IF "attr" \in columns
    THEN [name : Tags, attr : AttrVals, count : CountVals]
    ELSE [name : Tags, count : CountVals]

\* catalogs of at most one row per tag, the names pairwise distinct and the rows
\* in the order df_tags is kept in (count descending, then name ascending)
TagTables(columns) ==
    {s \in UNION {[1..n -> TagRows(columns)] : n \in 0..Cardinality(Tags)} :
        \A i, j \in 1..Len(s) : i < j => TagRowBefore(s[i], s[j])}

Catalogs ==
    {[columns |-> columns, rows |-> rows] :
        columns \in {{"name", "count"}}, rows \in TagTables({"name", "count"})}
    \cup
    {[columns |-> columns, rows |-> rows] :
        columns \in {{"name", "attr", "count"}},
        rows \in TagTables({"name", "attr", "count"})}

----------------------------------------------------------------------------
(* State machine *)

Init ==
    /\ data = None
    /\ retval = None
    /\ status = "ok"
    /\ op = "none"
    /\ recalc = FALSE
    /\ pre = None
    /\ raw = None
    /\ dataFrom = "none"

\* TagData.from_parquet(...), the caller keeping the result
FromParquet ==
    /\ dataFrom = "none"
    /\ \E df_raw_table \in RawTables, d_raw_tags \in RefTables,
          tags_preserved_columns \in PreservedColumns :
          \E r \in {from_parquet(df_raw_table, d_raw_tags, tags_preserved_columns)} :
              /\ retval' = r.retval
              /\ status' = r.status
              /\ data' = r.retval
              /\ raw' = [df_raw_table |-> df_raw_table, d_raw_tags |-> d_raw_tags,
                         tags_preserved_columns |-> tags_preserved_columns]
    /\ op' = "from_parquet"
    /\ dataFrom' = "from_parquet"
    /\ UNCHANGED <<recalc, pre>>

\* TagData(df_table=..., df_tags=...) built by the caller
Construct ==
    /\ dataFrom = "none"
    /\ \E df_table \in RawTables, df_tags \in Catalogs :
          /\ retval' = TagData(df_table, df_tags)
          /\ data' = TagData(df_table, df_tags)
    /\ status' = "ok"
    /\ op' = "construct"
    /\ dataFrom' = "construct"
    /\ UNCHANGED <<recalc, pre, raw>>

\* data.recalculate_tags()
RecalculateTags ==
    /\ data # None
    /\ \E r \in {recalculate_tags(data)} :
           /\ data' = r.self
           /\ retval' = r.retval
           /\ status' = r.status
    /\ pre' = data
    /\ op' = "recalculate_tags"
    /\ UNCHANGED <<recalc, raw, dataFrom>>

\* data.clean_tags_in_table(recalculate_tags=...)
CleanTagsInTable ==
    /\ data # None
    /\ \E recalculate \in BOOLEAN :
          \E r \in {clean_tags_in_table(data, recalculate)} :
              /\ data' = r.self
              /\ retval' = r.retval
              /\ status' = r.status
              /\ recalc' = recalculate
    /\ pre' = data
    /\ op' = "clean_tags_in_table"
    /\ UNCHANGED <<raw, dataFrom>>

\* data = data.<call>(): the caller goes on with the returned object alone
Rebind ==
    /\ op \in {"recalculate_tags", "clean_tags_in_table"}
    /\ status = "ok"
    /\ data' = retval
    /\ dataFrom' = IF op = "clean_tags_in_table" /\ recalc
                   THEN "clean_tags_in_table+recalculate_tags" ELSE op
    /\ retval' = None
    /\ op' = "none"
    /\ recalc' = FALSE
    /\ pre' = None
    /\ UNCHANGED <<status, raw>>

Next ==
    \/ FromParquet
    \/ Construct
    \/ RecalculateTags
    \/ CleanTagsInTable
    \/ Rebind

Spec == Init /\ [][Next]_vars

----------------------------------------------------------------------------
(* Properties *)

\* the last call returned a catalog it made by scanning retval.df_table
CatalogProduced ==
    /\ status = "ok"
    /\ \/ op \in {"from_parquet", "recalculate_tags"}
       \/ op = "clean_tags_in_table" /\ recalc

\* the last call returned a table it made
TableProduced ==
    /\ status = "ok"
    /\ op \in {"from_parquet", "clean_tags_in_table"}

TagsOf(df_table) == UNION {Range(df_table[i].tags) : i \in 1..Len(df_table)}

\* the (record, position) pairs of a table at which the tag stands
Occurrences(df_table, tag) ==
    UNION {{<<i, j>> : j \in {k \in 1..Len(df_table[i].tags) : df_table[i].tags[k] = tag}} :
              i \in 1..Len(df_table)}

RECURSIVE SumCount(_)
SumCount(rows) ==
    IF rows = <<>> THEN 0 ELSE Head(rows).count + SumCount(Tail(rows))

HasRepeatedTag(df_table) ==
    \E i \in 1..Len(df_table) :
        \E j, k \in 1..Len(df_table[i].tags) :
            j # k /\ df_table[i].tags[j] = df_table[i].tags[k]

\* C1: every tag of every record of the store clean_tags_in_table returns is a
\* name of the catalog the operation was invoked with
C1_SubsetLaw ==
    (op = "clean_tags_in_table" /\ status = "ok") =>
        \A i \in 1..Len(retval.df_table) :
            Range(retval.df_table[i].tags) \subseteq Names(pre.df_tags)

\* a cleaning that removed a tag and kept another
C1_Witness ==
    /\ op = "clean_tags_in_table"
    /\ status = "ok"
    /\ ~(TagsOf(pre.df_table) \subseteq Names(pre.df_tags))
    /\ TagsOf(retval.df_table) # {}

\* C2: once ingestion ran with a reference list, every tag of every record and
\* every catalog name of the built pair, and of every pair obtained from it by
\* clean_tags_in_table and recalculate_tags, is a name of the reference list
InReference(td) ==
    /\ TagsOf(td.df_table) \subseteq DOMAIN raw.d_raw_tags.rows
    /\ Names(td.df_tags) \subseteq DOMAIN raw.d_raw_tags.rows

C2_ReferenceOnly ==
    (raw # None /\ raw.d_raw_tags # None) =>
        /\ data # None => InReference(data)
        /\ retval # None => InReference(retval)

\* the raw table carried a tag outside the reference and the pair went through
\* a later operation
C2_Witness ==
    /\ raw # None
    /\ raw.d_raw_tags # None
    /\ ~(TagsOf(raw.df_raw_table) \subseteq DOMAIN raw.d_raw_tags.rows)
    /\ op \in {"clean_tags_in_table", "recalculate_tags"}
    /\ status = "ok"
    /\ TagsOf(retval.df_table) # {}

\* C3 as stated: the count of every entry of a catalog made by ingestion or
\* recalculation is the number of records of the scanned store whose tags
\* contain the entry's name
C3_CountIsRecordCount ==
    CatalogProduced =>
        \A k \in 1..Len(retval.df_tags.rows) :
            retval.df_tags.rows[k].count =
                Cardinality({i \in 1..Len(retval.df_table) :
                    retval.df_tags.rows[k].name \in Range(retval.df_table[i].tags)})

\* C3 amended: the count is the number of occurrences of the name in the tag
\* sequences of the scanned store, which is the number of records containing
\* it when no record repeats a tag
C3_CountIsOccurrenceCount ==
    CatalogProduced =>
        \A k \in 1..Len(retval.df_tags.rows) :
            /\ retval.df_tags.rows[k].count =
                   Cardinality(Occurrences(retval.df_table, retval.df_tags.rows[k].name))
            /\ ~HasRepeatedTag(retval.df_table) =>
                   retval.df_tags.rows[k].count =
                       Cardinality({i \in 1..Len(retval.df_table) :
                           retval.df_tags.rows[k].name \in Range(retval.df_table[i].tags)})

\* a catalog made from a store in which a record repeats a tag
C3_Witness ==
    /\ CatalogProduced
    /\ HasRepeatedTag(retval.df_table)
    /\ \E k \in 1..Len(retval.df_tags.rows) : retval.df_tags.rows[k].count >= 2

\* C4: the counts of a catalog made by recalculation or ingestion add up to the
\* number of tag occurrences of the scanned store
C4_CountConservation ==
    CatalogProduced =>
        SumCount(retval.df_tags.rows) = TotalTags(retval.df_table)

\* a recalculation over a store of two records in which a record repeats a tag
C4_Witness ==
    /\ op = "recalculate_tags"
    /\ status = "ok"
    /\ HasRepeatedTag(retval.df_table)
    /\ Len(retval.df_table) >= 2

\* C5: a name of the input catalog that occurs in no record is absent from
\* the catalog recalculate_tags returns, and no catalog made by ingestion or
\* recalculation has an entry of count 0
C5_ZeroCountPruning ==
    /\ (op = "recalculate_tags" /\ status = "ok") =>
           \A n \in Names(pre.df_tags) :
               n \notin TagsOf(pre.df_table) => n \notin Names(retval.df_tags)
    /\ CatalogProduced =>
           \A k \in 1..Len(retval.df_tags.rows) : retval.df_tags.rows[k].count > 0

\* a recalculation whose input catalog named a tag no record carries
C5_Witness ==
    /\ op = "recalculate_tags"
    /\ status = "ok"
    /\ ~(Names(pre.df_tags) \subseteq TagsOf(pre.df_table))

C7_ExtraFieldsPreserved ==
    (raw # None /\ TableProduced) =>
        /\ Len(retval.df_table) = Len(raw.df_raw_table)
        /\ \A i \in 1..Len(retval.df_table) :
              /\ "extra" \in DOMAIN retval.df_table[i]
              /\ retval.df_table[i].id = SortById(raw.df_raw_table)[i].id
              /\ retval.df_table[i].extra = SortById(raw.df_raw_table)[i].extra

\* C8: recalculate_tags raises a lookup error and returns nothing whenever the
\* store carries a tag the input catalog has no entry for
C8_LookupErrorRaised ==
    (op = "recalculate_tags" /\ ~(TagsOf(pre.df_table) \subseteq Names(pre.df_tags))) =>
        /\ status = "KeyError"
        /\ retval = None

\* C9: after recalculate_tags or clean_tags_in_table returns or raises, the
\* object it was called on holds the store and the catalog it held before
C9_ReceiverUntouched ==
    op \in {"recalculate_tags", "clean_tags_in_table"} => data = pre

====
